---------------------------- MODULE Spec2Model ----------------------------
(***************************************************************************)
(* Model of service_lines.py: the date normaliser convert_date and the    *)
(* two range-filtered views of the Streamlit dashboard.                    *)
(*                                                                         *)
(* A Python string is a sequence of one-character tokens.  The token "^2" *)
(* stands for the single character U+00B2 (superscript two): str.isdigit  *)
(* accepts it, int() and the regular expression class \d do not.          *)
(***************************************************************************)
EXTENDS Integers, Sequences, FiniteSets, TLC

VARIABLES unit, value, pc, result, text, again,
          raw, status, service_install_date, PTYPE, min_year, max_year,
          year_range, bar_year_range, filtered_data, map_view,
          bar_data, yearly_counts, bar_view

convVars == <<value, pc, result, text, again>>
dashVars == <<raw, status, service_install_date, PTYPE, min_year, max_year,
              year_range, bar_year_range, filtered_data, map_view,
              bar_data, yearly_counts, bar_view>>
vars == <<unit, convVars, dashVars>>

----------------------------------------------------------------------------
(* Bounds of the model *)

MaxMonthLen == 2
MaxYearLen == 4
MaxExtraLen == 1
MaxRecords == 3

----------------------------------------------------------------------------
(* Python str helpers *)

Digits == <<"0", "1", "2", "3", "4", "5", "6", "7", "8", "9">>

\* Characters int() and \d accept (ASCII decimal digits).
DecimalChars == {Digits[i] : i \in 1..Len(Digits)}

\* Characters str.isdigit accepts: the decimal digits and digit-like
\* characters such as superscript two.
IsDigitChars == DecimalChars \cup {"^2"}

DigitVal(c) == (CHOOSE i \in 1..Len(Digits) : Digits[i] = c) - 1

\* str.isdigit(): non-empty and every character is a digit character.
isdigit(s) == Len(s) > 0 /\ \A i \in 1..Len(s) : s[i] \in IsDigitChars

\* int(s) raises ValueError when s holds a character that is no decimal digit
\* (only applied to strings that passed isdigit, so sign and blanks never occur).
IntRaises(s) == Len(s) = 0 \/ \E i \in 1..Len(s) : s[i] \notin DecimalChars

RECURSIVE int(_)
int(s) == IF Len(s) = 0 THEN 0
          ELSE 10 * int(SubSeq(s, 1, Len(s) - 1)) + DigitVal(s[Len(s)])

RECURSIVE IntToStr(_)
IntToStr(n) == IF n < 10 THEN <<Digits[n + 1]>>
               ELSE IntToStr(n \div 10) \o <<Digits[(n % 10) + 1]>>

RECURSIVE ZeroPad(_, _)
\* format spec ":0w": left-pad with "0" up to width w.
ZeroPad(s, w) == IF Len(s) >= w THEN s ELSE ZeroPad(<<"0">> \o s, w)

RECURSIVE lstrip(_, _)
\* str.lstrip(c): drop every leading c.
lstrip(s, c) == IF Len(s) > 0 /\ s[1] = c THEN lstrip(Tail(s), c) ELSE s

RECURSIVE split(_, _)
\* str.split(sep): the list of parts between separators (always at least one).
split(s, sep) ==
    IF \A i \in 1..Len(s) : s[i] # sep THEN <<s>>
    ELSE LET k == CHOOSE i \in 1..Len(s) :
                      s[i] = sep /\ \A j \in 1..(i - 1) : s[j] # sep
         IN <<SubSeq(s, 1, k - 1)>> \o split(SubSeq(s, k + 1, Len(s)), sep)

----------------------------------------------------------------------------
(* Results of convert_date *)

NaT == [kind |-> "NaT", year |-> 0, month |-> 0, day |-> 0]
ValueError == [kind |-> "ValueError", year |-> 0, month |-> 0, day |-> 0]
Timestamp(y, m) == [kind |-> "Timestamp", year |-> y, month |-> m, day |-> 1]

\* The datetime resolution of the installed pandas: nanoseconds (pandas 1
\* and 2) or microseconds (pandas 3).
Units == {"ns", "us"}

\* Whether the first day of month m of year y fits the resolution's range:
\* datetime64[ns] spans 1677-09-21 .. 2262-04-11, microseconds span every
\* year a four-digit field can name.
InBounds(y, m, u) ==
    \/ u = "us"
    \/ /\ (y > 1677 \/ (y = 1677 /\ m >= 10))
       /\ (y < 2262 \/ (y = 2262 /\ m <= 4))

\* Length of the prefix of s matched by %m, the regex 1[0-2]|0[1-9]|[1-9];
\* 0 when none matches.
MatchMonth(s) ==
    IF Len(s) >= 2 /\ s[1] = "1" /\ s[2] \in {"0", "1", "2"} THEN 2
    ELSE IF Len(s) >= 2 /\ s[1] = "0" /\ s[2] \in (DecimalChars \ {"0"}) THEN 2
    ELSE IF Len(s) >= 1 /\ s[1] \in (DecimalChars \ {"0"}) THEN 1
    ELSE 0

\* pd.to_datetime(s, format="%m/%Y", errors="coerce"): the whole string must
\* be a month, "/", and exactly four decimal digits; year 0 is no calendar
\* year; a date outside the resolution's range is coerced to NaT.
to_datetime(s, u) ==
    LET k == MatchMonth(s)
        rest == SubSeq(s, k + 1, Len(s))
    IN IF k = 0 \/ Len(rest) # 5 \/ rest[1] # "/" THEN NaT
       ELSE IF \E i \in 2..5 : rest[i] \notin DecimalChars THEN NaT
       ELSE LET m == int(SubSeq(s, 1, k))
                y == int(SubSeq(rest, 2, 5))
            IN IF y = 0 \/ ~InBounds(y, m, u) THEN NaT ELSE Timestamp(y, m)

----------------------------------------------------------------------------
(* convert_date *)

Sentinel == <<"0", "/", "0", "0", "0">>

\* Line 15: the inputs rejected at once.
Rejected(v, parts) ==
    v = Sentinel \/ Len(parts) # 2 \/ ~isdigit(parts[2])

\* Line 23 evaluates int(month) whenever month.isdigit() holds.
MonthRaises(month) == isdigit(month) /\ IntRaises(month)

\* Variant: every month becomes January.
CorrectMonth_AlwaysJanuary(month) == <<"0", "1">>

\* Variant: the month is kept only when it is spelled without a leading zero.
CorrectMonth_Unpadded(month) ==
    IF month \in {IntToStr(n) : n \in 1..12} THEN month ELSE <<"0", "1">>

\* Lines 23-24: default to January unless the month is a number in 1..12.
CorrectMonth(month) ==
    IF ~isdigit(month) \/ ~(1 <= int(month) /\ int(month) <= 12)
    THEN <<"0", "1">>
    ELSE month

\* Lines 27-28: a three-character year gets "19" in front of what is left
\* after stripping its leading zeros.
CorrectYear(year) ==
    IF Len(year) = 3 THEN <<"1", "9">> \o lstrip(year, "0") ELSE year

\* Line 31: f"{int(month):02}/{year}".
corrected_value(month, year) ==
    ZeroPad(IntToStr(int(month)), 2) \o <<"/">> \o year

convert_date(v, u) ==
    LET parts == split(v, "/")
    IN IF Rejected(v, parts) THEN NaT
       ELSE IF MonthRaises(parts[1]) THEN ValueError
       ELSE to_datetime(corrected_value(CorrectMonth(parts[1]),
                                        CorrectYear(parts[2])), u)


----------------------------------------------------------------------------
(* Input strings of convert_date *)

MonthChars == {"0", "1", "2", "x", "^2"}
YearChars == {"0", "2", "9", "x"}
ExtraChars == {"1", "x"}

StrsUpTo(chars, n) == UNION {[1..k -> chars] : k \in 0..n}

MonthStrs == StrsUpTo(MonthChars, MaxMonthLen)
YearStrs == StrsUpTo(YearChars, MaxYearLen)
ExtraStrs == StrsUpTo(ExtraChars, MaxExtraLen)

Join2(a, b) == a \o <<"/">> \o b

\* Strings the data-quality notes and the date-range limits single out.
Examples ==
    { <<"5", "/", "9", "8", "7">>,
      <<"0", "2", "/", "2", "0", "2", "1">>,
      <<"1", "3", "/", "2", "0", "0", "0">>,
      <<"5", "/", "0", "0", "0">>,
      <<"3", "/", "0", "4", "5">>,
      <<"1", "2", "/", "1", "9", "8", "6">>,
      <<"9", "/", "1", "6", "7", "7">>,
      <<"1", "0", "/", "1", "6", "7", "7">>,
      <<"4", "/", "2", "2", "6", "2">>,
      <<"5", "/", "2", "2", "6", "2">>,
      <<"^2", "/", "^2">>,
      <<"7", "/", "^2", "^2", "^2", "^2">> }

Inputs ==
    MonthStrs \cup YearStrs
    \cup {Join2(m, y) : m \in MonthStrs, y \in YearStrs}
    \cup {Join2(a, Join2(b, c)) : a \in ExtraStrs, b \in ExtraStrs, c \in YearStrs}
    \cup Examples

----------------------------------------------------------------------------
(* Applying convert_date to one cell (line 35), then to its own output *)

NoResult == [kind |-> "none", year |-> 0, month |-> 0, day |-> 0]

\* The date written back in the month/year format of line 32, "%m/%Y"; the
\* month with or without its leading zero.
strftime(d, padded) ==
    ZeroPad(IntToStr(d.month), IF padded THEN 2 ELSE 1)
        \o <<"/">> \o ZeroPad(IntToStr(d.year), 4)

DashIdle ==
    /\ raw = <<>>
    /\ status = "idle"
    /\ service_install_date = <<>>
    /\ PTYPE = <<>>
    /\ min_year = 0
    /\ max_year = 0
    /\ year_range = <<0, 0>>
    /\ bar_year_range = <<0, 0>>
    /\ filtered_data = {}
    /\ map_view = "none"
    /\ bar_data = {}
    /\ yearly_counts = <<>>
    /\ bar_view = "none"

ConvInit ==
    /\ unit \in Units
    /\ value \in Inputs
    /\ pc = "call"
    /\ result = NoResult
    /\ text = <<>>
    /\ again = NoResult
    /\ DashIdle

Apply ==
    /\ pc = "call"
    /\ result' = convert_date(value, unit)
    /\ pc' = "returned"
    /\ UNCHANGED <<unit, value, text, again, dashVars>>

Reapply ==
    /\ pc = "returned"
    /\ result.kind = "Timestamp"
    /\ \E padded \in BOOLEAN :
          /\ text' = strftime(result, padded)
          /\ again' = convert_date(text', unit)
    /\ pc' = "reapplied"
    /\ UNCHANGED <<unit, value, result, dashVars>>

ConvNext == Apply \/ Reapply

SpecConvert == ConvInit /\ [][ConvNext]_vars

----------------------------------------------------------------------------
(* The dashboard script: load, normalise, filter, group, render *)

\* A blank CSV cell: read_csv yields NaN, which .str.strip() leaves as NaN.
Missing == <<"<NaN>">>

RECURSIVE rstrip(_, _)
rstrip(s, c) ==
    IF Len(s) > 0 /\ s[Len(s)] = c THEN rstrip(SubSeq(s, 1, Len(s) - 1), c) ELSE s

\* Line 36: Series.str.strip() on one cell.
strip(s) == IF s = Missing THEN Missing ELSE rstrip(lstrip(s, " "), " ")

\* Variant: the upper end of the range is excluded.
InRange_Exclusive(d, rng) ==
    d.kind = "Timestamp" /\ d.year >= rng[1] /\ d.year < rng[2]

\* Lines 85-86 and 130-131: (year >= lo) & (year <= hi); the year of NaT is
\* NaN, and every comparison with NaN is False.
InRange(d, rng) ==
    d.kind = "Timestamp" /\ d.year >= rng[1] /\ d.year <= rng[2]

\* Boolean-mask selection: the index labels of the rows the mask keeps.
FilterRows(dates, rng) == {i \in DOMAIN dates : InRange(dates[i], rng)}

\* Line 134, groupby([year, 'PTYPE']).size(): rows whose key holds NaN are
\* dropped (dropna=True is the default); one count per remaining key.
GroupSize(dates, ptypes, rows) ==
    LET kept == {i \in rows : ptypes[i] # Missing}
        keys == {<<dates[i].year, ptypes[i]>> : i \in kept}
    IN [k \in keys |->
           Cardinality({i \in kept : <<dates[i].year, ptypes[i]>> = k})]

\* Line 134, .unstack().fillna(0): a year-by-category table, 0 where the
\* pair has no group.
Unstack(sizes) ==
    LET ys == {k[1] : k \in DOMAIN sizes}
        cs == {k[2] : k \in DOMAIN sizes}
    IN [k \in ys \X cs |-> IF k \in DOMAIN sizes THEN sizes[k] ELSE 0]

\* Lines 89-123: the map or the "No data available" text.
MapView(rows) == IF rows # {} THEN "chart" ELSE "message"

\* Lines 137-154: the figure is built and passed to st.plotly_chart whatever
\* bar_data holds.
BarView(rows) == "chart"

SetMin(S) == CHOOSE x \in S : \A y \in S : x <= y
SetMax(S) == CHOOSE x \in S : \A y \in S : x >= y

\* Line 35: the normalised column.
Normalise(rw, u) == [i \in DOMAIN rw |-> convert_date(rw[i].SERV_INSTALL, u)]

\* The years of the valid dates (NaN is skipped by min() and max()).
Years(dates) == {dates[i].year : i \in {j \in DOMAIN dates : dates[j].kind = "Timestamp"}}

\* The script ends with an exception at line 35 when convert_date raises, and
\* at line 78 when no date is valid (int() of NaN).
ScriptFails(rw, u) ==
    LET dates == Normalise(rw, u)
    IN (\E i \in DOMAIN dates : dates[i] = ValueError) \/ Years(dates) = {}

\* Lines 82 and 127: the pairs a range slider can hold.
Ranges(lo, hi) == {r \in (lo..hi) \X (lo..hi) : r[1] <= r[2]}

\* Rows of Water_Services.csv: the sentinel date, two years with a gap
\* between them, an invalid and a zero-padded month, a category with trailing
\* blanks, a blank category, and a month int() rejects.
Rows ==
    { [SERV_INSTALL |-> <<"0", "/", "0", "0", "0">>, PTYPE |-> <<"L">>],
      [SERV_INSTALL |-> <<"5", "/", "2", "0", "0", "0">>, PTYPE |-> <<"L">>],
      [SERV_INSTALL |-> <<"5", "/", "2", "0", "0", "0">>, PTYPE |-> <<"P", " ">>],
      [SERV_INSTALL |-> <<"1", "3", "/", "2", "0", "0", "2">>, PTYPE |-> <<"L">>],
      [SERV_INSTALL |-> <<"0", "2", "/", "2", "0", "0", "2">>, PTYPE |-> Missing],
      [SERV_INSTALL |-> <<"^2", "/", "2", "0", "0", "0">>, PTYPE |-> <<"L">>] }

Datasets == UNION {[1..n -> Rows] : n \in 0..MaxRecords}

ConvIdle ==
    /\ value = <<>>
    /\ pc = "idle"
    /\ result = NoResult
    /\ text = <<>>
    /\ again = NoResult

\* Lines 82-154: what the script shows for a normalised table and the two
\* slider values.
Render(dates, ptypes, yr, byr) ==
    LET rows == FilterRows(dates, yr)
        bars == FilterRows(dates, byr)
    IN [ status               |-> "ok",
         service_install_date |-> dates,
         PTYPE                |-> ptypes,
         min_year             |-> SetMin(Years(dates)),
         max_year             |-> SetMax(Years(dates)),
         year_range           |-> yr,
         bar_year_range       |-> byr,
         filtered_data        |-> rows,
         map_view             |-> MapView(rows),
         bar_data             |-> bars,
         yearly_counts        |-> Unstack(GroupSize(dates, ptypes, bars)),
         bar_view             |-> BarView(bars) ]

\* One run of the script from top to bottom with the sliders at yr and byr.
Run(rw, u, yr, byr) ==
    Render(Normalise(rw, u), [i \in DOMAIN rw |-> strip(rw[i].PTYPE)], yr, byr)

Failed(rw, u) ==
    [ status               |-> "error",
      service_install_date |-> <<>>,
      PTYPE                |-> <<>>,
      min_year             |-> 0,
      max_year             |-> 0,
      year_range           |-> <<0, 0>>,
      bar_year_range       |-> <<0, 0>>,
      filtered_data        |-> {},
      map_view             |-> "none",
      bar_data             |-> {},
      yearly_counts        |-> <<>>,
      bar_view             |-> "none" ]

\* The first run: both sliders start at (min_year, max_year).
FirstRun(rw, u) ==
    IF ScriptFails(rw, u) THEN Failed(rw, u)
    ELSE LET ys == Years(Normalise(rw, u))
             full == <<SetMin(ys), SetMax(ys)>>
         IN Run(rw, u, full, full)

Init ==
    /\ unit \in Units
    /\ raw \in Datasets
    /\ ConvIdle
    /\ \E r \in {FirstRun(raw, unit)} :
          /\ status = r.status
          /\ service_install_date = r.service_install_date
          /\ PTYPE = r.PTYPE
          /\ min_year = r.min_year
          /\ max_year = r.max_year
          /\ year_range = r.year_range
          /\ bar_year_range = r.bar_year_range
          /\ filtered_data = r.filtered_data
          /\ map_view = r.map_view
          /\ bar_data = r.bar_data
          /\ yearly_counts = r.yearly_counts
          /\ bar_view = r.bar_view

\* A widget change reruns the whole script with the widgets' current values.
Rerun(yr, byr) ==
    \E r \in {Run(raw, unit, yr, byr)} :
       /\ status' = r.status
       /\ service_install_date' = r.service_install_date
       /\ PTYPE' = r.PTYPE
       /\ min_year' = r.min_year
       /\ max_year' = r.max_year
       /\ year_range' = r.year_range
       /\ bar_year_range' = r.bar_year_range
       /\ filtered_data' = r.filtered_data
       /\ map_view' = r.map_view
       /\ bar_data' = r.bar_data
       /\ yearly_counts' = r.yearly_counts
       /\ bar_view' = r.bar_view
       /\ UNCHANGED <<unit, raw, convVars>>

SelectYearRange ==
    /\ status = "ok"
    /\ \E rng \in Ranges(min_year, max_year) :
          rng # year_range /\ Rerun(rng, bar_year_range)

SelectBarYearRange ==
    /\ status = "ok"
    /\ \E rng \in Ranges(min_year, max_year) :
          rng # bar_year_range /\ Rerun(year_range, rng)

Next == SelectYearRange \/ SelectBarYearRange

Spec == Init /\ [][Next]_vars

----------------------------------------------------------------------------
(* Properties of convert_date, checked under SpecConvert *)

\* The parts of the input and what the statements say about them.
Parts == split(value, "/")
AllDecimal(s) == Len(s) > 0 /\ \A i \in 1..Len(s) : s[i] \in DecimalChars
Returned == pc \in {"returned", "reapplied"}
MonthYear == Len(Parts) = 2
FourDigitYear == MonthYear /\ Len(Parts[2]) = 4 /\ AllDecimal(Parts[2])
ValidMonth ==
    /\ MonthYear
    /\ Len(Parts[1]) \in {1, 2}
    /\ AllDecimal(Parts[1])
    /\ int(Parts[1]) \in 1..12

\* The first day of month m of year y lies within 1677-09-21 .. 2262-04-11,
\* the dates a nanosecond timestamp holds (every pandas build holds these).
WithinNanoseconds(y, m) ==
    /\ (y >= 1678 \/ (y = 1677 /\ m >= 10))
    /\ (y <= 2261 \/ (y = 2262 /\ m <= 4))

\* C1: convert_date never raises: every input string yields a valid date or
\* the missing-value marker.
C1_NeverRaises == Returned => result.kind \in {"Timestamp", "NaT"}

\* C2: convert_date("5/987") is the first of May 1987.
C2_ThreeDigitYear ==
    (Returned /\ value = <<"5", "/", "9", "8", "7">>) => result = Timestamp(1987, 5)

\* C3: the input "0/000", an input with no or with more than one separator,
\* and an input whose last part is not made only of decimal digits all yield
\* the missing-value marker.
C3_RejectedIsMissing ==
    (Returned /\ (value = Sentinel \/ Len(Parts) # 2 \/ ~AllDecimal(Parts[Len(Parts)])))
        => result = NaT

\* C4: with a four-digit year, a month that is not all digits or not in 1..12
\* yields the first of January of that year.  Stated for the years whose
\* January every pandas build can hold, so that a violation is a matter of
\* the month alone.
C4_InvalidMonthIsJanuary ==
    (/\ Returned
     /\ FourDigitYear
     /\ WithinNanoseconds(int(Parts[2]), 1)
     /\ (~AllDecimal(Parts[1]) \/ int(Parts[1]) \notin 1..12))
        => result = Timestamp(int(Parts[2]), 1)

\* C5 as stated: a one- or two-digit month in 1..12 and any four-digit year
\* yield exactly day 1 of that month and year; every date returned has day 1
\* and a month in 1..12.
C5_ExactDate ==
    /\ (Returned /\ ValidMonth /\ FourDigitYear)
           => result = Timestamp(int(Parts[2]), int(Parts[1]))
    /\ (Returned /\ result.kind = "Timestamp")
           => (result.day = 1 /\ result.month \in 1..12)

\* C5 amended: a one- or two-digit month in 1..12 and a four-digit year
\* whose first day of that month lies within 1677-09-21 .. 2262-04-11 yield
\* exactly day 1 of that month and year; every date returned has day 1 and a
\* month in 1..12.
C5_ExactDateInRange ==
    /\ (/\ Returned
        /\ ValidMonth
        /\ FourDigitYear
        /\ WithinNanoseconds(int(Parts[2]), int(Parts[1])))
           => result = Timestamp(int(Parts[2]), int(Parts[1]))
    /\ (Returned /\ result.kind = "Timestamp")
           => (result.day = 1 /\ result.month \in 1..12)

C5_Witness ==
    /\ pc = "returned"
    /\ value = <<"0", "2", "/", "2", "0", "2", "1">>
    /\ result = Timestamp(2021, 2)

\* C6: every input whose year part is "000" and whose month part is not "0"
\* yields the missing-value marker, the same on every call.
C6_EmptyYearIsMissing ==
    (Returned /\ MonthYear /\ Parts[2] = <<"0", "0", "0">> /\ Parts[1] # <<"0">>)
        => result = NaT

\* C7: when convert_date returns a date, writing that date as month "/"
\* four-digit year and converting the text again returns the same date.
C7_Idempotent == pc = "reapplied" => again = result

C7_Witness ==
    /\ pc = "reapplied"
    /\ value = <<"3", "/", "0", "4", "5">>
    /\ text = <<"0", "3", "/", "1", "9", "4", "5">>
    /\ again = Timestamp(1945, 3)

----------------------------------------------------------------------------
(* Properties of the views, checked under Spec *)

\* The rows of the normalised table whose date has a year within rng.
RowsWithin(rng) ==
    {i \in DOMAIN raw :
        LET d == convert_date(raw[i].SERV_INSTALL, unit)
        IN d.kind = "Timestamp" /\ rng[1] <= d.year /\ d.year <= rng[2]}

\* C8: after any slider selections the map's rows and the bar chart's rows
\* are exactly the normalised rows with a year inside that view's current
\* range; a row with the missing-value marker is in neither.
C8_ViewsMatchRange ==
    status = "ok" =>
        /\ filtered_data = RowsWithin(year_range)
        /\ bar_data = RowsWithin(bar_year_range)
        /\ \A i \in DOMAIN service_install_date :
              service_install_date[i] = NaT => i \notin filtered_data \cup bar_data

C8_Witness ==
    /\ status = "ok"
    /\ year_range = <<2000, 2001>>
    /\ bar_year_range = <<2002, 2002>>
    /\ \E i \in DOMAIN service_install_date : service_install_date[i] = NaT
    /\ filtered_data # {}
    /\ bar_data # {}
    /\ filtered_data # bar_data

RECURSIVE SumOver(_, _)
SumOver(f, S) ==
    IF S = {} THEN 0
    ELSE LET k == CHOOSE x \in S : TRUE
         IN f[k] + SumOver(f, S \ {k})

C10_EmptyShowsMessage ==
    status = "ok" =>
        /\ filtered_data = {} => map_view = "message"
        /\ bar_data = {} => bar_view = "message"

=============================================================================
